---- MODULE Spec2Model ----
(***************************************************************************)
(* State-machine model of src/main.py: the FastAPI handler                 *)
(* get_orders_summary (GET /api/jps/orders) with its helpers               *)
(* _parse_number, _safe_str and _terminal_name.                            *)
(*                                                                         *)
(* Representation.  A Python str is the sequence of its Unicode code       *)
(* points, so that concatenation, replacement and comparison are those of  *)
(* the code.  A Python float is a tagged record: a finite value carries    *)
(* its magnitude in units of 10^-FracDigits (decimal fixed point), the     *)
(* non-finite values are inf, -inf and nan.  A JSON value is a tagged      *)
(* record too (none, bool, int, float, str, list of ints).                 *)
(***************************************************************************)
EXTENDS Integers, Sequences, FiniteSets, TLC

\* Longest item list the upstream returns in the model.
MaxItems == 2
\* Decimal digits kept after the point in the fixed-point model of a float.
FracDigits == 3
\* ndigits of round(..., 2) in the totals.
RoundDigits == 2

(***************************************************************************)
(* Strings                                                                 *)
(***************************************************************************)

\* Python's str < str: code point by code point, a proper prefix is smaller.
RECURSIVE StrLess(_, _)
StrLess(a, b) ==
    IF b = <<>> THEN FALSE
    ELSE IF a = <<>> THEN TRUE
    ELSE IF a[1] # b[1] THEN a[1] < b[1]
    ELSE StrLess(Tail(a), Tail(b))

\* s.replace(old, new) for a one-character old.
RECURSIVE Replace(_, _, _)
Replace(s, old, new) ==
    IF s = <<>> THEN <<>>
    ELSE (IF s[1] = old THEN new ELSE <<s[1]>>) \o Replace(Tail(s), old, new)

RECURSIVE NatToStr(_)
NatToStr(n) ==
    IF n < 10 THEN <<48 + n>> ELSE NatToStr(n \div 10) \o <<48 + (n % 10)>>

\* str(n) for an int.
IntToStr(n) == IF n < 0 THEN <<45>> \o NatToStr(-n) ELSE NatToStr(n)

\* The literal "—" (U+2014) of lines 89 and 181.
Dash == <<8212>>

\* The literal "|" of the f-string of line 176.
KeySeparator == <<124>>

(***************************************************************************)
(* Floats                                                                  *)
(***************************************************************************)

RECURSIVE Pow10(_)
Pow10(n) == IF n = 0 THEN 1 ELSE 10 * Pow10(n - 1)

Scale == Pow10(FracDigits)

Fin(m) == [k |-> "fin", m |-> m]
PosInf == [k |-> "inf", m |-> 0]
NegInf == [k |-> "ninf", m |-> 0]
NaN == [k |-> "nan", m |-> 0]

\* a + b on floats (IEEE: nan absorbs, inf + -inf is nan).
FloatAdd(a, b) ==
    IF a.k = "nan" \/ b.k = "nan" THEN NaN
    ELSE IF a.k = "fin" /\ b.k = "fin" THEN Fin(a.m + b.m)
    ELSE IF a.k = "fin" THEN b
    ELSE IF b.k = "fin" THEN a
    ELSE IF a.k = b.k THEN a
    ELSE NaN

\* int(x) raises OverflowError for an infinity and ValueError for nan.
IntRaises(x) == x.k # "fin"

\* int(x) of a finite float: truncation toward zero.
IntOfFloat(x) ==
    IF x.m >= 0 THEN x.m \div Scale ELSE -((-x.m) \div Scale)

\* round(x, RoundDigits): to the nearest multiple of 10^-RoundDigits, a tie
\* to the even one; a non-finite value is returned as it is.  (A tie is
\* taken on the decimal value; the binary value of a float may sit on
\* either side of it.)
RoundFloat(x) ==
    IF x.k # "fin" THEN x
    ELSE LET q == Pow10(FracDigits - RoundDigits)
             a == IF x.m < 0 THEN -x.m ELSE x.m
             lo == a \div q
             r == a % q
             up == IF 2 * r > q THEN lo + 1
                   ELSE IF 2 * r = q THEN lo + (lo % 2)
                   ELSE lo
         IN  Fin((IF x.m < 0 THEN -1 ELSE 1) * up * q)

RECURSIVE PadDigits(_, _)
PadDigits(n, w) ==
    IF w = 0 THEN <<>> ELSE PadDigits(n \div 10, w - 1) \o <<48 + (n % 10)>>

RECURSIVE StripZeros(_)
StripZeros(s) ==
    IF Len(s) > 1 /\ s[Len(s)] = 48 THEN StripZeros(SubSeq(s, 1, Len(s) - 1))
    ELSE s

\* str(x) of a float: "inf", "-inf", "nan", or the shortest decimal with at
\* least one digit after the point.
FloatToStr(x) ==
    IF x.k = "inf" THEN <<105, 110, 102>>
    ELSE IF x.k = "ninf" THEN <<45, 105, 110, 102>>
    ELSE IF x.k = "nan" THEN <<110, 97, 110>>
    ELSE LET a == IF x.m < 0 THEN -x.m ELSE x.m
         IN  (IF x.m < 0 THEN <<45>> ELSE <<>>)
             \o NatToStr(a \div Scale) \o <<46>>
             \o StripZeros(PadDigits(a % Scale, FracDigits))

IsDigit(c) == c >= 48 /\ c <= 57

\* Index of the first position at or after i that holds no digit.
RECURSIVE DigitsEnd(_, _)
DigitsEnd(s, i) ==
    IF i <= Len(s) /\ IsDigit(s[i]) THEN DigitsEnd(s, i + 1) ELSE i

RECURSIVE DigitsVal(_)
DigitsVal(ds) ==
    IF ds = <<>> THEN 0
    ELSE 10 * DigitsVal(SubSeq(ds, 1, Len(ds) - 1)) + (ds[Len(ds)] - 48)

\* Leading zeros do not count toward the magnitude of a literal.
RECURSIVE DropZeros(_)
DropZeros(ds) ==
    IF ds # <<>> /\ ds[1] = 48 THEN DropZeros(Tail(ds)) ELSE ds

IsSpace(c) == c \in {9, 10, 11, 12, 13, 32}

RECURSIVE Strip(_)
Strip(s) ==
    IF s # <<>> /\ IsSpace(s[1]) THEN Strip(Tail(s))
    ELSE IF s # <<>> /\ IsSpace(s[Len(s)]) THEN Strip(SubSeq(s, 1, Len(s) - 1))
    ELSE s

Lower(s) == [i \in 1..Len(s) |-> IF s[i] >= 65 /\ s[i] <= 90 THEN s[i] + 32 ELSE s[i]]

NoParse == [ok |-> FALSE, val |-> Fin(0)]
Parsed(x) == [ok |-> TRUE, val |-> x]

\* The digits int.frac times 10^exp as a float: a magnitude of 10^309 or
\* more overflows to infinity, digits below 10^-FracDigits are dropped.
DecimalValue(neg, int, frac, exp) ==
    LET ds == DropZeros(int \o frac)
        e10 == exp - Len(frac)
    IN  IF ds = <<>> THEN Fin(0)
        ELSE IF Len(ds) + e10 > 309 THEN (IF neg THEN NegInf ELSE PosInf)
        ELSE LET shift == e10 + FracDigits
                 n == DigitsVal(ds)
                 a == IF shift >= 0 THEN n * Pow10(shift)
                      ELSE IF -shift > Len(ds) THEN 0
                      ELSE n \div Pow10(-shift)
             IN  Fin(IF neg THEN -a ELSE a)

\* float(s) for a str: surrounding whitespace stripped, an optional sign,
\* then inf / infinity / nan in any case, or a decimal literal with an
\* optional exponent.  ok = FALSE stands for the ValueError.
ParseFloat(s) ==
    LET t == Strip(s)
        signed == t # <<>> /\ t[1] \in {43, 45}
        neg == signed /\ t[1] = 45
        u == IF signed THEN Tail(t) ELSE t
        w == Lower(u)
        i1 == DigitsEnd(u, 1)
        int == SubSeq(u, 1, i1 - 1)
        dot == i1 <= Len(u) /\ u[i1] = 46
        i2 == IF dot THEN DigitsEnd(u, i1 + 1) ELSE i1
        frac == IF dot THEN SubSeq(u, i1 + 1, i2 - 1) ELSE <<>>
        hasExp == i2 <= Len(u) /\ u[i2] \in {69, 101}
        esigned == hasExp /\ i2 + 1 <= Len(u) /\ u[i2 + 1] \in {43, 45}
        i3 == IF esigned THEN i2 + 2 ELSE i2 + 1
        i4 == IF hasExp THEN DigitsEnd(u, i3) ELSE i2
        edigits == IF hasExp THEN SubSeq(u, i3, i4 - 1) ELSE <<>>
        eneg == esigned /\ u[i2 + 1] = 45
    IN  IF w = <<105, 110, 102>> \/ w = <<105, 110, 102, 105, 110, 105, 116, 121>>
          THEN Parsed(IF neg THEN NegInf ELSE PosInf)
        ELSE IF w = <<110, 97, 110>> THEN Parsed(NaN)
        ELSE IF int \o frac = <<>> THEN NoParse
        ELSE IF hasExp /\ edigits = <<>> THEN NoParse
        ELSE IF i4 # Len(u) + 1 THEN NoParse
        ELSE Parsed(DecimalValue(neg, int, frac,
                                 IF eneg THEN -DigitsVal(edigits) ELSE DigitsVal(edigits)))

(***************************************************************************)
(* JSON values as Python sees them                                         *)
(***************************************************************************)

NoneV == [t |-> "none", k |-> "", n |-> 0, s |-> <<>>]
BoolV(b) == [t |-> "bool", k |-> "", n |-> IF b THEN 1 ELSE 0, s |-> <<>>]
IntV(n) == [t |-> "int", k |-> "", n |-> n, s |-> <<>>]
FloatV(x) == [t |-> "float", k |-> x.k, n |-> x.m, s |-> <<>>]
StrV(s) == [t |-> "str", k |-> "", n |-> 0, s |-> s]
\* A JSON array of ints.
ListV(xs) == [t |-> "list", k |-> "", n |-> 0, s |-> xs]

AsFloat(v) == [k |-> v.k, m |-> v.n]

\* bool(v): what `or` and `if` test.
Truthy(v) ==
    CASE v.t = "none" -> FALSE
      [] v.t = "bool" -> v.n = 1
      [] v.t = "int" -> v.n # 0
      [] v.t = "float" -> ~(v.k = "fin" /\ v.n = 0)
      [] v.t = "str" -> v.s # <<>>
      [] v.t = "list" -> v.s # <<>>

\* a or b
PyOr(a, b) == IF Truthy(a) THEN a ELSE b

\* a or b on two str
StrOr(a, b) == IF a # <<>> THEN a ELSE b

RECURSIVE JoinInts(_)
JoinInts(xs) ==
    IF xs = <<>> THEN <<>>
    ELSE IF Len(xs) = 1 THEN IntToStr(xs[1])
    ELSE IntToStr(xs[1]) \o <<44, 32>> \o JoinInts(Tail(xs))

\* str(v)
PyStr(v) ==
    CASE v.t = "none" -> <<78, 111, 110, 101>>
      [] v.t = "bool" -> IF v.n = 1 THEN <<84, 114, 117, 101>>
                         ELSE <<70, 97, 108, 115, 101>>
      [] v.t = "int" -> IntToStr(v.n)
      [] v.t = "float" -> FloatToStr(AsFloat(v))
      [] v.t = "str" -> v.s
      [] v.t = "list" -> <<91>> \o JoinInts(v.s) \o <<93>>

(***************************************************************************)
(* Helpers of main.py                                                      *)
(***************************************************************************)

\* _parse_number's answer to a str that float() rejects.  (The except
\* clause also covers float(v) of an int beyond the float range, which the
\* bounded ints of the model do not reach.)
ParseFallback(p) == IF p.ok THEN p.val ELSE Fin(0)

_parse_number(v) ==
    IF v.t = "none" THEN Fin(0)
    ELSE IF v.t \in {"bool", "int"} THEN Fin(v.n * Scale)
    ELSE IF v.t = "float" THEN AsFloat(v)
    ELSE ParseFallback(ParseFloat(Replace(Replace(PyStr(v), 32, <<>>), 44, <<46>>)))

_safe_str(v) == IF v.t = "none" THEN <<>> ELSE PyStr(v)

TERMINAL_MAP ==
    {
      \* line 21: 15d25714-7526-cc14-0193-897eb2667d2e -> Просвещения
      <<<<49, 53, 100, 50, 53, 55, 49, 52, 45, 55, 53, 50, 54, 45, 99, 99, 49, 52, 45, 48, 49, 57, 51, 45, 56, 57, 55, 101, 98, 50, 54, 54, 55, 100, 50, 101>>,
        <<1055, 1088, 1086, 1089, 1074, 1077, 1097, 1077, 1085, 1080, 1103>>>>,
      \* line 22: 1a0a9f8b-74fa-f826-0175-2d06ca025115 -> Мурино
      <<<<49, 97, 48, 97, 57, 102, 56, 98, 45, 55, 52, 102, 97, 45, 102, 56, 50, 54, 45, 48, 49, 55, 53, 45, 50, 100, 48, 54, 99, 97, 48, 50, 53, 49, 49, 53>>,
        <<1052, 1091, 1088, 1080, 1085, 1086>>>>,
      \* line 23: 1f85b040-6446-64ca-015e-9f51010a895b -> Искровский
      <<<<49, 102, 56, 53, 98, 48, 52, 48, 45, 54, 52, 52, 54, 45, 54, 52, 99, 97, 45, 48, 49, 53, 101, 45, 57, 102, 53, 49, 48, 49, 48, 97, 56, 57, 53, 98>>,
        <<1048, 1089, 1082, 1088, 1086, 1074, 1089, 1082, 1080, 1081>>>>,
      \* line 24: 38eb58e7-b049-596b-016e-6bf17621dac5 -> Королева
      <<<<51, 56, 101, 98, 53, 56, 101, 55, 45, 98, 48, 52, 57, 45, 53, 57, 54, 98, 45, 48, 49, 54, 101, 45, 54, 98, 102, 49, 55, 54, 50, 49, 100, 97, 99, 53>>,
        <<1050, 1086, 1088, 1086, 1083, 1077, 1074, 1072>>>>,
      \* line 25: 39b92096-e4b6-e0ed-015b-9133d592e611 -> Ленинский
      <<<<51, 57, 98, 57, 50, 48, 57, 54, 45, 101, 52, 98, 54, 45, 101, 48, 101, 100, 45, 48, 49, 53, 98, 45, 57, 49, 51, 51, 100, 53, 57, 50, 101, 54, 49, 49>>,
        <<1051, 1077, 1085, 1080, 1085, 1089, 1082, 1080, 1081>>>>,
      \* line 26: 39b92096-e4b6-e0ed-015b-944d281c22bb -> Ветеранов
      <<<<51, 57, 98, 57, 50, 48, 57, 54, 45, 101, 52, 98, 54, 45, 101, 48, 101, 100, 45, 48, 49, 53, 98, 45, 57, 52, 52, 100, 50, 56, 49, 99, 50, 50, 98, 98>>,
        <<1042, 1077, 1090, 1077, 1088, 1072, 1085, 1086, 1074>>>>,
      \* line 27: 39b92096-e4b6-e0ed-015b-944d281c22ed -> Рыбацкое
      <<<<51, 57, 98, 57, 50, 48, 57, 54, 45, 101, 52, 98, 54, 45, 101, 48, 101, 100, 45, 48, 49, 53, 98, 45, 57, 52, 52, 100, 50, 56, 49, 99, 50, 50, 101, 100>>,
        <<1056, 1099, 1073, 1072, 1094, 1082, 1086, 1077>>>>,
      \* line 28: 39b92096-e4b6-e0ed-015b-944d281c8a0a -> Капитанская
      <<<<51, 57, 98, 57, 50, 48, 57, 54, 45, 101, 52, 98, 54, 45, 101, 48, 101, 100, 45, 48, 49, 53, 98, 45, 57, 52, 52, 100, 50, 56, 49, 99, 56, 97, 48, 97>>,
        <<1050, 1072, 1087, 1080, 1090, 1072, 1085, 1089, 1082, 1072, 1103>>>>,
      \* line 29: 46c6cc6e-6735-8107-0167-21149ac0331f -> Блюхера
      <<<<52, 54, 99, 54, 99, 99, 54, 101, 45, 54, 55, 51, 53, 45, 56, 49, 48, 55, 45, 48, 49, 54, 55, 45, 50, 49, 49, 52, 57, 97, 99, 48, 51, 51, 49, 102>>,
        <<1041, 1083, 1102, 1093, 1077, 1088, 1072>>>>,
      \* line 30: 4ed2b309-6ec2-2fd3-0193-93b97757c893 -> Голикова
      <<<<52, 101, 100, 50, 98, 51, 48, 57, 45, 54, 101, 99, 50, 45, 50, 102, 100, 51, 45, 48, 49, 57, 51, 45, 57, 51, 98, 57, 55, 55, 53, 55, 99, 56, 57, 51>>,
        <<1043, 1086, 1083, 1080, 1082, 1086, 1074, 1072>>>>,
      \* line 31: 62cd0a1a-231e-4134-0162-75c691ce2b65 -> Фурштатская
      <<<<54, 50, 99, 100, 48, 97, 49, 97, 45, 50, 51, 49, 101, 45, 52, 49, 51, 52, 45, 48, 49, 54, 50, 45, 55, 53, 99, 54, 57, 49, 99, 101, 50, 98, 54, 53>>,
        <<1060, 1091, 1088, 1096, 1090, 1072, 1090, 1089, 1082, 1072, 1103>>>>,
      \* line 32: 6f8c05e8-40e6-2039-0166-919ba0f42e0d -> Кудрово
      <<<<54, 102, 56, 99, 48, 53, 101, 56, 45, 52, 48, 101, 54, 45, 50, 48, 51, 57, 45, 48, 49, 54, 54, 45, 57, 49, 57, 98, 97, 48, 102, 52, 50, 101, 48, 100>>,
        <<1050, 1091, 1076, 1088, 1086, 1074, 1086>>>>,
      \* line 33: 8eeeab47-be14-6e80-0173-36235e931afd -> Стародеревенская
      <<<<56, 101, 101, 101, 97, 98, 52, 55, 45, 98, 101, 49, 52, 45, 54, 101, 56, 48, 45, 48, 49, 55, 51, 45, 51, 54, 50, 51, 53, 101, 57, 51, 49, 97, 102, 100>>,
        <<1057, 1090, 1072, 1088, 1086, 1076, 1077, 1088, 1077, 1074, 1077, 1085, 1089, 1082, 1072, 1103>>>>,
      \* line 34: e2c0c0c8-df59-a16e-0164-832fbe6a8c96 -> Варшавская
      <<<<101, 50, 99, 48, 99, 48, 99, 56, 45, 100, 102, 53, 57, 45, 97, 49, 54, 101, 45, 48, 49, 54, 52, 45, 56, 51, 50, 102, 98, 101, 54, 97, 56, 99, 57, 54>>,
        <<1042, 1072, 1088, 1096, 1072, 1074, 1089, 1082, 1072, 1103>>>>,
      \* line 35: eaa99ae2-ec68-3bfd-018e-bf1d68878993 -> Купчино
      <<<<101, 97, 97, 57, 57, 97, 101, 50, 45, 101, 99, 54, 56, 45, 51, 98, 102, 100, 45, 48, 49, 56, 101, 45, 98, 102, 49, 100, 54, 56, 56, 55, 56, 57, 57, 51>>,
        <<1050, 1091, 1087, 1095, 1080, 1085, 1086>>>>
    }

\* TERMINAL_MAP.get(id, default)
TerminalMapGet(id, default) ==
    IF \E e \in TERMINAL_MAP : e[1] = id
      THEN (CHOOSE e \in TERMINAL_MAP : e[1] = id)[2]
      ELSE default

_terminal_name(id) ==
    IF id = <<>> THEN Dash ELSE TerminalMapGet(id, id)

(***************************************************************************)
(* One iteration of the aggregation loop, lines 149-187                    *)
(***************************************************************************)

\* it.get(name): None for a missing key as for a JSON null.
Get(it, name) == IF name \in DOMAIN it THEN it[name] ELSE NoneV

courier(it) ==
    StrOr(StrOr(StrOr(_safe_str(Get(it, "courier")),
                      _safe_str(Get(it, "courierName"))),
                _safe_str(Get(it, "employee"))),
          _safe_str(Get(it, "driver")))

terminal_id(it) ==
    StrOr(StrOr(_safe_str(Get(it, "terminalId")),
                _safe_str(Get(it, "terminal"))),
          _safe_str(Get(it, "storeId")))

\* Line 164.
ExplicitCount(it) ==
    PyOr(PyOr(Get(it, "ordersCount"), Get(it, "count")), Get(it, "orders"))

\* Line 165.
PrimaryAmount(it) ==
    PyOr(PyOr(PyOr(Get(it, "totalAmount"), Get(it, "sum")), Get(it, "amount")),
         Get(it, "revenue"))

\* Line 171.
SecondaryAmount(it) ==
    PyOr(PyOr(Get(it, "totalPrice"), Get(it, "price")), Get(it, "orderSum"))

\* Lines 168-169: orders_count before the coercion of line 173.
CountValue(it) ==
    IF ExplicitCount(it) = NoneV THEN IntV(1) ELSE ExplicitCount(it)

\* Lines 170-171: amount_val before the coercion of line 174.
AmountValue(it) ==
    IF PrimaryAmount(it) = NoneV THEN SecondaryAmount(it) ELSE PrimaryAmount(it)

\* Line 173 raises when int() is given a non-finite float.
CountRaises(it) == IntRaises(_parse_number(CountValue(it)))

\* Line 173.
orders_count(it) == IntOfFloat(_parse_number(CountValue(it)))

\* Line 174.
amount_val(it) == _parse_number(AmountValue(it))

\* Line 176.
key(it) == courier(it) \o KeySeparator \o terminal_id(it)

\* The filter of line 177 left out: no record is skipped.
NeverSkipped(it, filter) == FALSE

\* Line 177: the record is skipped.
Skipped(it, filter) == Truthy(filter) /\ terminal_id(it) # filter.s

\* Line 186 without max(1, ...).
NoFloor(n) == n

\* Line 186: max(1, orders_count).
Floor1(n) == IF n > 1 THEN n ELSE 1

\* agg is a dict: a sequence of buckets in insertion order, one per key.
HasKey(a, kk) == \E j \in 1..Len(a) : a[j].key = kk

\* Lines 179-185.
NewBucket(it) ==
    [key |-> key(it),
     courier |-> StrOr(courier(it), Dash),
     terminalId |-> StrOr(terminal_id(it), <<>>),
     orders |-> 0,
     amount |-> Fin(0)]

\* Lines 186-187 on the bucket of the record's key.
AddTo(b, it) ==
    [b EXCEPT !.orders = @ + Floor1(orders_count(it)),
              !.amount = FloatAdd(@, amount_val(it))]

\* Lines 179-187.
Fold(a, it) ==
    LET a1 == IF HasKey(a, key(it)) THEN a ELSE Append(a, NewBucket(it))
    IN  [j \in 1..Len(a1) |-> IF a1[j].key = key(it) THEN AddTo(a1[j], it) ELSE a1[j]]

(***************************************************************************)
(* Assembly of the result, lines 189-209                                   *)
(***************************************************************************)

\* Lines 190-194.
Row(b) ==
    [courier |-> b.courier,
     terminalId |-> b.terminalId,
     orders |-> b.orders,
     amount |-> b.amount,
     terminalName |-> _terminal_name(b.terminalId)]

\* The sort key of line 197.
SortKey(r) == <<StrOr(r.terminalName, <<>>), StrOr(r.courier, <<>>)>>

\* Python's tuple < tuple on two pairs of str.
KeyLess(a, b) == StrLess(a[1], b[1]) \/ (a[1] = b[1] /\ StrLess(a[2], b[2]))

\* list.sort is stable: r goes after every row whose key is not greater.
RECURSIVE Insert(_, _)
Insert(sorted, r) ==
    IF sorted = <<>> THEN <<r>>
    ELSE IF KeyLess(SortKey(r), SortKey(sorted[Len(sorted)]))
      THEN Append(Insert(SubSeq(sorted, 1, Len(sorted) - 1), r), sorted[Len(sorted)])
    ELSE Append(sorted, r)

RECURSIVE SortRows(_)
SortRows(rs) ==
    IF rs = <<>> THEN <<>>
    ELSE Insert(SortRows(SubSeq(rs, 1, Len(rs) - 1)), rs[Len(rs)])

\* Lines 189-194 without the sort of line 197.
UnsortedRows(a) == [j \in 1..Len(a) |-> Row(a[j])]

\* Lines 189-197.
Rows(a) == SortRows([j \in 1..Len(a) |-> Row(a[j])])

RECURSIVE SumOrders(_)
SumOrders(rs) == IF rs = <<>> THEN 0 ELSE rs[1].orders + SumOrders(Tail(rs))

RECURSIVE SumAmount(_)
SumAmount(rs) ==
    IF rs = <<>> THEN Fin(0) ELSE FloatAdd(SumAmount(SubSeq(rs, 1, Len(rs) - 1)), rs[Len(rs)].amount)

\* Lines 199-203.
Totals(rs) ==
    [orders |-> SumOrders(rs),
     couriers |-> Cardinality({rs[j].courier : j \in {i \in 1..Len(rs) : rs[i].courier # <<>>}}),
     amount |-> RoundFloat(SumAmount(rs))]

(***************************************************************************)
(* The request and the upstream's answers                                  *)
(***************************************************************************)

\* Values of the start and end query parameters.
DateStrings == {"2025-01-01T00:00:00", "01.01.2025", ""}

\* Whether datetime.fromisoformat accepts the value.
IsIsoFormat(d) == d = "2025-01-01T00:00:00"

S_A == <<65>>
S_B == <<66>>
S_C == <<67>>
\* "A|B"
S_AB == <<65, 124, 66>>
\* "B|C"
S_BC == <<66, 124, 67>>
\* The id of terminal Murino, line 22.
MURINO == <<49, 97, 48, 97, 57, 102, 56, 98, 45, 55, 52, 102, 97, 45, 102, 56, 50, 54, 45, 48, 49, 55, 53, 45, 50, 100, 48, 54, 99, 97, 48, 50, 53, 49, 49, 53>>
\* The id of terminal Veteranov, line 26.
VETERANOV == <<51, 57, 98, 57, 50, 48, 57, 54, 45, 101, 52, 98, 54, 45, 101, 48, 101, 100, 45, 48, 49, 53, 98, 45, 57, 52, 52, 100, 50, 56, 49, 99, 50, 50, 98, 98>>

\* Values of the terminal query parameter: absent, empty, an id.
TerminalFilters == {NoneV, StrV(<<>>), StrV(S_C)}

\* Records that differ in courier and terminal and carry no numbers.
IdRecords ==
    {[courier |-> StrV(c), terminalId |-> StrV(t)] :
         c \in {S_A, S_AB, Dash}, t \in {S_C, S_BC}}
    \cup {[terminalId |-> StrV(S_C)],
          [terminalId |-> StrV(S_BC)],
          [courier |-> StrV(S_A)],
          [courier |-> StrV(S_B), terminalId |-> StrV(MURINO)],
          [courier |-> StrV(S_A), terminalId |-> StrV(VETERANOV)],
          [courierName |-> StrV(S_B), driver |-> StrV(S_A), terminal |-> StrV(S_C)],
          [courier |-> NoneV, employee |-> IntV(0), storeId |-> StrV(S_C)]}

\* The count fields of a record.
CountParts ==
    {[ordersCount |-> IntV(3)],
     [ordersCount |-> IntV(0), count |-> IntV(5)],
     [ordersCount |-> IntV(0)],
     [orders |-> StrV(<<48>>)],
     [count |-> IntV(-3)],
     [count |-> FloatV(Fin(29 * Pow10(FracDigits - 1)))],
     [count |-> StrV(<<97, 98, 99>>)],
     [count |-> ListV(<<1>>)],
     [count |-> StrV(<<105, 110, 102>>)],
     [orders |-> StrV(<<110, 97, 110>>)],
     [count |-> StrV(<<49, 101, 52, 48, 48>>)],
     [count |-> FloatV(PosInf)]}

\* The amount fields of a record.
AmountParts ==
    {[totalAmount |-> IntV(0), sum |-> IntV(7)],
     [amount |-> StrV(<<49, 48, 48, 44, 53, 48>>)],
     [revenue |-> StrV(<<49, 32, 50, 51, 52, 44, 53, 54>>)],
     [price |-> IntV(50)],
     [totalAmount |-> IntV(0), price |-> IntV(50)]}

\* Records with count and amount fields.
NumRecords ==
    {[courier |-> StrV(S_A), terminalId |-> StrV(S_C)] @@ c : c \in CountParts}
    \cup {[courier |-> StrV(S_B), terminalId |-> StrV(S_C)] @@ a : a \in AmountParts}
    \cup {[courier |-> StrV(S_A), terminalId |-> StrV(MURINO)] @@ c @@ a :
              c \in {[ordersCount |-> IntV(3)], [orders |-> IntV(0)]},
              a \in {[price |-> IntV(50)], [amount |-> IntV(10)]}}

\* The lists of at most n records of R.
ListsOver(R, n) == UNION {[1..m -> R] : m \in 0..n}

JsonList(l) == [shape |-> "list", list |-> l, dict |-> [x \in {} |-> 0]]
JsonDict(d) == [shape |-> "dict", list |-> <<>>, dict |-> d]
JsonScalar == [shape |-> "scalar", list |-> <<>>, dict |-> [x \in {} |-> 0]]
IsList(l) == [islist |-> TRUE, list |-> l]
NotList == [islist |-> FALSE, list |-> <<>>]

\* The envelopes of lines 135-144 around a list l.
Envelopes(l) ==
    {JsonList(l),
     JsonDict([data |-> IsList(l)]),
     JsonDict([items |-> IsList(l)]),
     JsonDict([results |-> IsList(l)]),
     JsonDict([data |-> NotList, items |-> IsList(l)]),
     JsonDict([data |-> NotList, results |-> IsList(l)]),
     JsonDict([data |-> IsList(l), items |-> IsList(<<>>)]),
     JsonDict([results |-> NotList, orders |-> IsList(l)])}

\* JSON bodies: every list as a bare list (the lists of records without
\* numbers one record longer, for the grouping and the ordering of three
\* rows), the short ones in every envelope.
Payloads ==
    {JsonList(l) :
         l \in ListsOver(IdRecords, MaxItems + 1) \cup ListsOver(NumRecords, MaxItems)}
    \cup UNION {Envelopes(l) : l \in ListsOver(IdRecords \cup NumRecords, 1)}
    \cup {JsonScalar}

SmallPayloads == {JsonList(l) : l \in ListsOver(IdRecords, 1)}

Response(transport, status, json, data) ==
    [transport |-> transport, status_code |-> status, json |-> json, data |-> data]

NoResponse == Response("none", 0, FALSE, JsonScalar)

\* What requests.get can come back with: a transport failure, or a status
\* with a body that is JSON or not.
Responses ==
    {Response("error", 0, FALSE, JsonScalar)}
    \cup {Response("ok", 200, TRUE, d) : d \in Payloads}
    \cup {Response("ok", s, TRUE, d) :
              s \in {101, 204, 300, 304, 401, 403, 404, 500, 503}, d \in SmallPayloads}
    \cup {Response("ok", s, FALSE, JsonScalar) :
              s \in {101, 200, 204, 300, 304, 401, 403, 404, 500, 503}}

\* Lines 133-144.
ItemsOf(d) ==
    IF d.shape = "list" THEN d.list
    ELSE IF d.shape = "dict" THEN
        IF "data" \in DOMAIN d.dict /\ d.dict["data"].islist THEN d.dict["data"].list
        ELSE IF "items" \in DOMAIN d.dict /\ d.dict["items"].islist THEN d.dict["items"].list
        ELSE IF "results" \in DOMAIN d.dict /\ d.dict["results"].islist
          THEN d.dict["results"].list
        ELSE <<>>
    ELSE <<>>

(***************************************************************************)
(* get_orders_summary as a state machine                                   *)
(***************************************************************************)

VARIABLES
    start,      \* query parameter start
    end,        \* query parameter end
    terminal,   \* query parameter terminal (NoneV when absent)
    pc,         \* position in the handler
    fetches,    \* number of requests.get calls issued so far
    resp,       \* the upstream's response
    items,      \* the item list taken from the payload
    idx,        \* 1-based position of the loop of line 149 in items
    agg,        \* the dict of buckets, in insertion order
    result      \* what the handler ended with

vars == <<start, end, terminal, pc, fetches, resp, items, idx, agg, result>>

NoResult == [kind |-> "none", status_code |-> 0, detail |-> "", rows |-> <<>>,
             totals |-> Totals(<<>>)]

\* raise HTTPException(status_code, detail)
HttpError(status, detail) ==
    [kind |-> "error", status_code |-> status, detail |-> detail, rows |-> <<>>,
     totals |-> Totals(<<>>)]

\* An exception that no handler of main.py catches (the framework answers 500).
Unhandled ==
    [kind |-> "exception", status_code |-> 500, detail |-> "Internal Server Error",
     rows |-> <<>>, totals |-> Totals(<<>>)]

\* Lines 205-209 (terminals is the constant TERMINAL_MAP).
Summary(rs) ==
    [kind |-> "summary", status_code |-> 200, detail |-> "", rows |-> rs,
     totals |-> Totals(rs)]

Init ==
    /\ start \in DateStrings
    /\ end \in DateStrings
    /\ terminal \in TerminalFilters
    /\ pc = "validate"
    /\ fetches = 0
    /\ resp = NoResponse
    /\ items = <<>>
    /\ idx = 1
    /\ agg = <<>>
    /\ result = NoResult

\* Lines 111-115 with only start parsed.
StartOnlyOk == IsIsoFormat(start)

\* Lines 111-115.
DatesOk == IsIsoFormat(start) /\ IsIsoFormat(end)

\* Lines 110-117.
Validate ==
    /\ pc = "validate"
    /\ IF DatesOk
         THEN pc' = "fetch" /\ result' = result
         ELSE /\ pc' = "done"
              /\ result' = HttpError(400, "Invalid datetime format")
    /\ UNCHANGED <<start, end, terminal, fetches, resp, items, idx, agg>>

\* Lines 118-121: the one call of requests.get.
Fetch ==
    /\ pc = "fetch"
    /\ fetches' = fetches + 1
    /\ \E r \in Responses :
          /\ resp' = r
          /\ IF r.transport = "error"
               THEN /\ pc' = "done"
                    /\ result' = HttpError(502, "Upstream connection error")
               ELSE pc' = "status" /\ result' = result
    /\ UNCHANGED <<start, end, terminal, items, idx, agg>>

\* The statuses lines 123-126 raise for.
StatusRejected(status) == status = 401 \/ status >= 400

\* Lines 123-126.
CheckStatus ==
    /\ pc = "status"
    /\ IF StatusRejected(resp.status_code)
         THEN /\ pc' = "done"
              /\ result' = IF resp.status_code = 401
                             THEN HttpError(401, "Unauthorized: invalid API token")
                             ELSE HttpError(resp.status_code, "Upstream error")
         ELSE pc' = "json" /\ result' = result
    /\ UNCHANGED <<start, end, terminal, fetches, resp, items, idx, agg>>

\* Lines 128-147.
ParseJson ==
    /\ pc = "json"
    /\ IF resp.json
         THEN /\ pc' = "loop"
              /\ items' = ItemsOf(resp.data)
              /\ result' = result
         ELSE /\ pc' = "done"
              /\ items' = items
              /\ result' = HttpError(502, "Invalid JSON from upstream")
    /\ idx' = 1
    /\ agg' = <<>>
    /\ UNCHANGED <<start, end, terminal, fetches, resp>>

\* One iteration of the loop of lines 149-187.
ProcessItem ==
    /\ pc = "loop"
    /\ idx <= Len(items)
    /\ IF CountRaises(items[idx])
         THEN /\ pc' = "done"
              /\ result' = Unhandled
              /\ UNCHANGED <<idx, agg>>
         ELSE /\ pc' = pc
              /\ result' = result
              /\ idx' = idx + 1
              /\ agg' = IF Skipped(items[idx], terminal) THEN agg
                        ELSE Fold(agg, items[idx])
    /\ UNCHANGED <<start, end, terminal, fetches, resp, items>>

\* Lines 189-209, once the loop is over.
Assemble ==
    /\ pc = "loop"
    /\ idx > Len(items)
    /\ pc' = "done"
    /\ result' = Summary(Rows(agg))
    /\ UNCHANGED <<start, end, terminal, fetches, resp, items, idx, agg>>

Next ==
    \/ Validate
    \/ Fetch
    \/ CheckStatus
    \/ ParseJson
    \/ ProcessItem
    \/ Assemble

Spec == Init /\ [][Next]_vars

(***************************************************************************)
(* Properties                                                              *)
(***************************************************************************)

\* The records the loop has been through.
Processed == 1..(idx - 1)

\* The processed records that line 177 did not skip.
Folded == {i \in Processed : ~Skipped(items[i], terminal)}

Returned == pc = "done" /\ result.kind = "summary"

\* Position in agg of the bucket with key kk.
BucketOf(kk) == CHOOSE j \in 1..Len(agg) : agg[j].key = kk

CourierKeys == <<"courier", "courierName", "employee", "driver">>
TerminalKeys == <<"terminalId", "terminal", "storeId">>
CountKeys == <<"ordersCount", "count", "orders">>
AmountKeys == <<"totalAmount", "sum", "amount", "revenue">>
SecondaryKeys == <<"totalPrice", "price", "orderSum">>

Range(f) == {f[j] : j \in DOMAIN f}

\* C1: two folded records whose (courier, terminalId) pairs differ are in
\* different buckets, and each folded record's bucket is labelled with that
\* record's own courier and terminalId.
C1_KeyCollisionFree ==
    /\ \A i \in Folded :
          /\ HasKey(agg, key(items[i]))
          /\ agg[BucketOf(key(items[i]))].courier = StrOr(courier(items[i]), Dash)
          /\ agg[BucketOf(key(items[i]))].terminalId = terminal_id(items[i])
    /\ \A i, j \in Folded :
          <<courier(items[i]), terminal_id(items[i])>>
              # <<courier(items[j]), terminal_id(items[j])>>
          => BucketOf(key(items[i])) # BucketOf(key(items[j]))

\* The record carries an explicit order-count field.
HasExplicitCount(it) == \E c \in Range(CountKeys) : Get(it, c) # NoneV

WithoutSecondary(it) == [f \in (DOMAIN it) \ Range(SecondaryKeys) |-> it[f]]

\* The aggregation of the first n records of its under filter.
RECURSIVE FoldAll(_, _, _)
FoldAll(its, n, filter) ==
    IF n = 0 THEN <<>>
    ELSE IF Skipped(its[n], filter) THEN FoldAll(its, n - 1, filter)
    ELSE Fold(FoldAll(its, n - 1, filter), its[n])

\* C2: for a record that carries an explicit order-count, totalPrice, price
\* and orderSum never contribute: the buckets are those the same records
\* give with these fields removed from every record that has a count.
C2_SecondaryOnlyWithoutCount ==
    agg = FoldAll([i \in 1..Len(items) |->
                      IF HasExplicitCount(items[i]) THEN WithoutSecondary(items[i])
                      ELSE items[i]],
                  idx - 1, terminal)

\* The value of the first key of ks that is present with a non-empty str().
RECURSIVE FirstPresent(_, _)
FirstPresent(it, ks) ==
    IF ks = <<>> THEN NoneV
    ELSE IF Get(it, ks[1]) # NoneV /\ PyStr(Get(it, ks[1])) # <<>> THEN Get(it, ks[1])
    ELSE FirstPresent(it, Tail(ks))

\* C3: every attribute of a processed record is taken from the first
\* candidate key, in list order, that is present with a non-empty
\* stringified value, a numeric 0 included: the courier, the terminal id,
\* the orders the record adds and its amount are those of that key.
C3_CandidatePriority ==
    \A i \in Processed :
        LET it == items[i]
            c == FirstPresent(it, CountKeys)
            a == FirstPresent(it, AmountKeys)
        IN  /\ courier(it) = _safe_str(FirstPresent(it, CourierKeys))
            /\ terminal_id(it) = _safe_str(FirstPresent(it, TerminalKeys))
            /\ (c # NoneV /\ ~IntRaises(_parse_number(c)))
                   => Floor1(orders_count(it))
                          = (IF IntOfFloat(_parse_number(c)) > 1
                               THEN IntOfFloat(_parse_number(c)) ELSE 1)
            /\ a # NoneV => amount_val(it) = _parse_number(a)

\* The request got as far as the aggregation loop.
ReachedLoop == resp.transport = "ok" /\ ~StatusRejected(resp.status_code) /\ resp.json

\* C4: no exception escapes the per-record normalization: once the payload
\* is parsed the handler ends with a summary in which every record the
\* filter keeps counts for at least one order.
C4_NormalizationNeverRaises ==
    /\ result.kind # "exception"
    /\ (pc = "done" /\ ReachedLoop)
           => /\ result.kind = "summary"
              /\ result.totals.orders
                     >= Cardinality({i \in 1..Len(items) : ~Skipped(items[i], terminal)})

\* What one record adds to the orders: 1 without an explicit count, else the
\* truncated coerced count and at least 1.
Contribution(it) ==
    IF ExplicitCount(it) = NoneV THEN 1
    ELSE LET n == IntOfFloat(_parse_number(ExplicitCount(it)))
         IN  IF n <= 0 THEN 1 ELSE n

RECURSIVE SumContributions(_, _)
SumContributions(its, n) ==
    IF n = 0 THEN 0
    ELSE (IF Skipped(its[n], terminal) THEN 0 ELSE Contribution(its[n]))
         + SumContributions(its, n - 1)

\* The orders fields of a sequence of buckets or rows, added up.
RECURSIVE OrdersIn(_)
OrdersIn(rs) == IF rs = <<>> THEN 0 ELSE OrdersIn(Tail(rs)) + Head(rs).orders

\* C5: the orders of the buckets add up to the contributions of the records
\* folded so far, and in the summary totals.orders is the sum of the rows'
\* orders and the sum of the contributions of all records not skipped.
C5_OrderConservation ==
    /\ OrdersIn(agg) = SumContributions(items, idx - 1)
    /\ Returned
           => /\ result.totals.orders = OrdersIn(result.rows)
              /\ result.totals.orders = SumContributions(items, Len(items))

\* A summary over a skipped record, a record with a negative explicit count
\* and nothing else that is kept.
C5_Witness ==
    /\ Returned
    /\ \E i \in 1..Len(items) : Skipped(items[i], terminal)
    /\ \E i \in 1..Len(items) :
          /\ ~Skipped(items[i], terminal)
          /\ ExplicitCount(items[i]) # NoneV
          /\ IntOfFloat(_parse_number(ExplicitCount(items[i]))) < 0
    /\ result.totals.orders = 1

\* The records of its whose terminal id is exactly t.
Matching(its, t) == {i \in 1..Len(its) : terminal_id(its[i]) = t}

RECURSIVE SumOver(_, _, _)
SumOver(its, n, keep) ==
    IF n = 0 THEN [orders |-> 0, amount |-> Fin(0)]
    ELSE LET rest == SumOver(its, n - 1, keep)
         IN  IF n \in keep
               THEN [orders |-> rest.orders + Floor1(orders_count(its[n])),
                     amount |-> FloatAdd(rest.amount, amount_val(its[n]))]
               ELSE rest

\* Every bucket and row is of terminal t and the totals are those of the
\* records of terminal t alone.
OnlyTerminal(t) ==
    /\ \A j \in 1..Len(agg) : agg[j].terminalId = t
    /\ Returned
           => /\ \A j \in 1..Len(result.rows) : result.rows[j].terminalId = t
              /\ result.totals.orders
                     = SumOver(items, Len(items), Matching(items, t)).orders
              /\ result.totals.amount
                     = RoundFloat(SumOver(items, Len(items), Matching(items, t)).amount)
              /\ result.totals.couriers
                     = Cardinality({StrOr(courier(items[i]), Dash) : i \in Matching(items, t)})

\* C6, as stated: whenever a terminal filter is given, records of any other
\* terminal reach neither the buckets, nor the rows, nor the totals.
C6_FilterWheneverProvided == terminal # NoneV => OnlyTerminal(terminal.s)

\* C6, amended: whenever a non-empty terminal filter is given, records of
\* any other terminal reach neither the buckets, nor the rows, nor the
\* totals.
C6_FilterWhenNonEmpty == Truthy(terminal) => OnlyTerminal(terminal.s)

\* A summary under a non-empty filter that kept a record and skipped one.
C6_Witness ==
    /\ Returned
    /\ Truthy(terminal)
    /\ \E i \in 1..Len(items) : Skipped(items[i], terminal)
    /\ Len(result.rows) >= 1

\* C7: a transport failure, a status outside 200..299 or a body that is not
\* JSON ends the request in an error, never in a summary.
C7_UpstreamFailureIsError ==
    (pc = "done" /\ resp.transport # "none"
        /\ (\/ resp.transport = "error"
            \/ resp.status_code < 200
            \/ resp.status_code > 299
            \/ ~resp.json))
        => result.kind = "error"

\* C8: with a start or end that does not parse no fetch is ever issued and
\* the request ends with the 400 error; no request fetches more than once.
C8_ValidationPrecedesFetch ==
    /\ fetches <= 1
    /\ ~(IsIsoFormat(start) /\ IsIsoFormat(end))
           => /\ fetches = 0
              /\ resp = NoResponse
              /\ pc \in {"validate", "done"}
              /\ pc = "done" => result = HttpError(400, "Invalid datetime format")

\* A request with a good start and a bad end, ended with the 400 error.
C8_Witness ==
    /\ pc = "done"
    /\ IsIsoFormat(start)
    /\ ~IsIsoFormat(end)
    /\ result.status_code = 400
    /\ fetches = 0

\* The display name the rows are to carry.
DisplayName(id) ==
    IF id = <<>> THEN Dash
    ELSE IF \E e \in TERMINAL_MAP : e[1] = id
      THEN (CHOOSE e \in TERMINAL_MAP : e[1] = id)[2]
    ELSE id

\* C9: the rows of a summary are in non-decreasing order of (terminalName,
\* courier) by code points, terminalName being the placeholder for an empty
\* terminal id, the directory's name for a known id and the id otherwise.
C9_RowsSorted ==
    Returned =>
        /\ \A j \in 1..Len(result.rows) :
              result.rows[j].terminalName = DisplayName(result.rows[j].terminalId)
        /\ \A i, j \in 1..Len(result.rows) :
              i < j =>
                  ~KeyLess(<<result.rows[j].terminalName, result.rows[j].courier>>,
                           <<result.rows[i].terminalName, result.rows[i].courier>>)

\* A summary in which a row of Veteranov precedes a row of Murino although
\* the Murino record arrived first.
C9_Witness ==
    /\ Returned
    /\ Len(result.rows) >= 2
    /\ agg[1].terminalId = MURINO
    /\ result.rows[1].terminalId = VETERANOV
    /\ result.rows[1].terminalName # VETERANOV
    /\ result.rows[2].terminalId = MURINO

\* C10: no two buckets, and no two rows, show the same (courier,
\* terminalId) pair.
C10_RowsUnique ==
    /\ \A i, j \in 1..Len(agg) :
          i # j => <<agg[i].courier, agg[i].terminalId>>
                       # <<agg[j].courier, agg[j].terminalId>>
    /\ \A i, j \in 1..Len(result.rows) :
          i # j => <<result.rows[i].courier, result.rows[i].terminalId>>
                       # <<result.rows[j].courier, result.rows[j].terminalId>>

====
